---- MODULE Spec2Model ----
(***************************************************************************)
(* A model of parsers.py: the ChesscomParser and LichessParser classes     *)
(* that turn raw chess-game records of two services into tag mappings.     *)
(*                                                                         *)
(* Python strings that the code takes apart (split, rstrip, "in", int())   *)
(* are sequences of one-character strings, so that the string operations   *)
(* are computed character by character.  Strings that the code only        *)
(* stores or compares with == are TLA+ strings.  A dict is a function      *)
(* whose domain is the set of keys present; reading a key outside the      *)
(* domain is Python's KeyError.  Values that the code stores under one key *)
(* with more than one Python type (ending, elodiff, nmoves) carry their    *)
(* type: PyStr, PyInt, None.                                               *)
(*                                                                         *)
(* Not modelled: the HTTP requests (a response text is an input of the     *)
(* fetch action), the regular expression of extract_pgn_tags and of        *)
(* extract_pgn_tags_from_json (the tag mapping it builds is an input), and *)
(* the statements that write localdate, localtime, game_id,                *)
(* currentposition and site, which no later statement reads; they are      *)
(* taken to find their tags well formed.  Move text is a sequence of       *)
(* tokens instead of characters.                                           *)
(*                                                                         *)
(* SpecSplit runs the fetch methods of ChesscomParser, SpecA its           *)
(* extract_pgn_tags and generate_supplemental_tags, SpecB the              *)
(* LichessParser pipeline one statement group at a time; SpecEnding runs   *)
(* extract_ending_from_pgn alone and SpecTC the time-control statements of *)
(* both parsers on the same specifier.                                     *)
(***************************************************************************)
EXTENDS Integers, Sequences, FiniteSets, TLC

VARIABLES
    chesscom,       \* the ChesscomParser object: [pgn_list, pgn_tags]
    response_text,  \* the response texts the last fetch received, in order
    fetched,        \* which fetch method ran last ("none" before any)
    pcA,            \* position in the ChesscomParser pipeline
    iA,             \* index of the record generate_supplemental_tags stopped in
    lichess,        \* the LichessParser object: [json_list, pgn_tags]
    heap,           \* the dicts built by convert_json_list_to_pgn_list, by record index
    pcB,            \* position in convert_json_list_to_pgn_list
    iB,             \* index of the record of json_list being converted
    call,           \* one call of extract_ending_from_pgn: [pc, moves, ret]
    tc              \* the time-control statements of both parsers run on one specifier:
                    \* [base, pc_a, pc_b, game_a, game_b]

vars == <<chesscom, response_text, fetched, pcA, iA, lichess, heap, pcB, iB, call, tc>>

-----------------------------------------------------------------------------
(* Bounds *)

MaxBlobLen == 8
MaxMonths == 2
MaxMonthLen == 4
MaxGames == 2
MaxBase == 601
NegBases == 2
MaxAnnotations == 2

-----------------------------------------------------------------------------
(* Python values *)

None == [none |-> TRUE]
PyStr(s) == [str |-> s]
PyInt(n) == [int |-> n]

Range(s) == {s[k] : k \in DOMAIN s}

SeqsUpTo(S, n) == UNION {[1..k -> S] : k \in 0..n}

-----------------------------------------------------------------------------
(* Python string operations on sequences of characters *)

NL == "\n"
Whitespace == {" ", NL, "\t", "\r"}

\* str.find(sep) + 1: the first position where sep occurs in s, 0 when none
Find(s, sep) ==
    LET hits == {k \in 1..(Len(s) - Len(sep) + 1) : SubSeq(s, k, k + Len(sep) - 1) = sep}
    IN  IF hits = {} THEN 0 ELSE CHOOSE k \in hits : \A j \in hits : k <= j

\* needle in s
Contains(needle, s) == Find(s, needle) # 0

\* s.split(sep), sep not empty
RECURSIVE Split(_, _)
Split(s, sep) ==
    LET k == Find(s, sep)
    IN  IF k = 0 THEN <<s>>
        ELSE <<SubSeq(s, 1, k - 1)>> \o Split(SubSeq(s, k + Len(sep), Len(s)), sep)

\* s.rstrip(chars): chars is a set of characters, not a suffix
RECURSIVE RStrip(_, _)
RStrip(s, chars) ==
    IF s # <<>> /\ s[Len(s)] \in chars THEN RStrip(SubSeq(s, 1, Len(s) - 1), chars) ELSE s

Digits == <<"0", "1", "2", "3", "4", "5", "6", "7", "8", "9">>

DigitValue(c) == (CHOOSE k \in 1..10 : Digits[k] = c) - 1

IsNumeral(s) == s # <<>> /\ \A k \in DOMAIN s : s[k] \in Range(Digits)

RECURSIVE NumeralValue(_)
NumeralValue(s) ==
    IF s = <<>> THEN 0
    ELSE 10 * NumeralValue(SubSeq(s, 1, Len(s) - 1)) + DigitValue(s[Len(s)])

\* int(s) succeeds: an optional sign and decimal digits
IntParses(s) ==
    IF s # <<>> /\ s[1] \in {"-", "+"} THEN IsNumeral(Tail(s)) ELSE IsNumeral(s)

\* int(s), for s with IntParses(s)
ParseInt(s) ==
    IF s[1] = "-" THEN 0 - NumeralValue(Tail(s))
    ELSE IF s[1] = "+" THEN NumeralValue(Tail(s))
    ELSE NumeralValue(s)

\* str(n), the decimal numeral of an integer
RECURSIVE NatToStr(_)
NatToStr(n) ==
    IF n < 10 THEN <<Digits[n + 1]>> ELSE NatToStr(n \div 10) \o <<Digits[(n % 10) + 1]>>

IntToStr(n) == IF n < 0 THEN <<"-">> \o NatToStr(0 - n) ELSE NatToStr(n)

-----------------------------------------------------------------------------
(* ChesscomParser: the fetch methods fill pgn_list *)

GameSeparator == <<NL, NL, NL>>

BlobAlphabet == {"g", NL}

Blobs(n) == SeqsUpTo(BlobAlphabet, n)

\* pgns.split("\n\n\n")
SplitGames(pgns) == Split(pgns, GameSeparator)

\* the loop body of fetch_month_range_pgns over the month responses
RECURSIVE AccumulateMonths(_)
AccumulateMonths(texts) ==
    IF texts = <<>> THEN <<>>
    ELSE LET before == AccumulateMonths(SubSeq(texts, 1, Len(texts) - 1))
             text == texts[Len(texts)]
         IN  IF text # <<>> THEN before \o RStrip(text, Whitespace) \o GameSeparator
             ELSE before

\* pgn_accumulator.rstrip("\n\n\n").split("\n\n\n")
SplitAccumulator(acc) == Split(RStrip(acc, {NL}), GameSeparator)

fetch_current_month_pgns ==
    \E text \in Blobs(MaxBlobLen) :
        /\ chesscom' = [chesscom EXCEPT !.pgn_list = SplitGames(text)]
        /\ response_text' = <<text>>
        /\ fetched' = "current"
        /\ UNCHANGED <<pcA, iA, lichess, heap, pcB, iB, call, tc>>

fetch_specific_month_pgns ==
    \E text \in Blobs(MaxBlobLen) :
        /\ chesscom' = [chesscom EXCEPT !.pgn_list = SplitGames(text)]
        /\ response_text' = <<text>>
        /\ fetched' = "specific"
        /\ UNCHANGED <<pcA, iA, lichess, heap, pcB, iB, call, tc>>

fetch_month_range_pgns ==
    \E texts \in SeqsUpTo(Blobs(MaxMonthLen), MaxMonths) :
        /\ chesscom' = [chesscom EXCEPT !.pgn_list = SplitAccumulator(AccumulateMonths(texts))]
        /\ response_text' = texts
        /\ fetched' = "range"
        /\ UNCHANGED <<pcA, iA, lichess, heap, pcB, iB, call, tc>>

-----------------------------------------------------------------------------
(* Words, as Python strings *)

SP == <<" ">>
w_seanyseand == <<"s", "e", "a", "n", "y", "s", "e", "a", "n", "d">>
w_opponent == <<"o", "p", "p", "o", "n", "e", "n", "t">>
w_Game == <<"G", "a", "m", "e">>
w_won == <<"w", "o", "n">>
w_drawn == <<"d", "r", "a", "w", "n">>
w_by == <<"b", "y">>
w_on == <<"o", "n">>
w_checkmate == <<"c", "h", "e", "c", "k", "m", "a", "t", "e">>
w_resignation == <<"r", "e", "s", "i", "g", "n", "a", "t", "i", "o", "n">>
w_time == <<"t", "i", "m", "e">>
w_repetition == <<"r", "e", "p", "e", "t", "i", "t", "i", "o", "n">>
w_stalemate == <<"s", "t", "a", "l", "e", "m", "a", "t", "e">>
w_insufficient == <<"i", "n", "s", "u", "f", "f", "i", "c", "i", "e", "n", "t">>
w_material == <<"m", "a", "t", "e", "r", "i", "a", "l">>
w_game == <<"g", "a", "m", "e">>
w_abandoned == <<"a", "b", "a", "n", "d", "o", "n", "e", "d">>
w_agreement == <<"a", "g", "r", "e", "e", "m", "e", "n", "t">>
w_timeout == <<"t", "i", "m", "e", "o", "u", "t">>
w_vs == <<"v", "s">>
w_dash == <<"-">>

\* s.split(): the maximal runs of non-whitespace characters
RECURSIVE SplitWS(_)
SplitWS(s) ==
    IF s = <<>> THEN <<>>
    ELSE IF s[1] \in Whitespace THEN SplitWS(Tail(s))
    ELSE LET stops == {k \in DOMAIN s : s[k] \in Whitespace}
             n == IF stops = {} THEN Len(s)
                  ELSE (CHOOSE k \in stops : \A j \in stops : k <= j) - 1
         IN  <<SubSeq(s, 1, n)>> \o SplitWS(SubSeq(s, n + 1, Len(s)))

\* sep.join(words)
RECURSIVE Join(_, _)
Join(words, sep) ==
    IF words = <<>> THEN <<>>
    ELSE IF Len(words) = 1 THEN words[1]
    ELSE words[1] \o sep \o Join(Tail(words), sep)

\* words[-2:]
LastTwo(words) == SubSeq(words, IF Len(words) > 2 THEN Len(words) - 1 ELSE 1, Len(words))

-----------------------------------------------------------------------------
(* Dicts and statements that may raise *)

\* d[k] = v
Set(d, k, v) == [x \in DOMAIN d \cup {k} |-> IF x = k THEN v ELSE d[x]]

Without(d, k) == [x \in DOMAIN d \ {k} |-> d[x]]

Has(d, k) == k \in DOMAIN d

Ok(game) == [raised |-> FALSE, game |-> game]
Raise(game) == [raised |-> TRUE, game |-> game]

\* the account whose games are archived: the literal "seanyseand"
USERNAME == w_seanyseand

-----------------------------------------------------------------------------
(* Move text: a sequence of tokens.  [num |-> n] is the move number "n.",  *)
(* [comment |-> text] is an annotation "{text}" (text not empty, without   *)
(* braces and without a move number), [san |-> m] is any other word.       *)

IsNum(tok) == DOMAIN tok = {"num"}
IsComment(tok) == DOMAIN tok = {"comment"}

\* len([move for move in re.split(r"\d+\.", moves) if move.strip()]):
\* the maximal runs of tokens that are not move numbers
RECURSIVE CountSegments(_)
CountSegments(moves) ==
    IF moves = <<>> THEN 0
    ELSE IF IsNum(moves[1]) THEN CountSegments(Tail(moves))
    ELSE IF Len(moves) = 1 \/ IsNum(moves[2]) THEN 1 + CountSegments(Tail(moves))
    ELSE CountSegments(Tail(moves))

\* game["nmoves"] = ...
NMovesBlock(game) ==
    IF ~Has(game, "moves") THEN Raise(game)
    ELSE Ok(Set(game, "nmoves", PyInt(CountSegments(game["moves"]))))

-----------------------------------------------------------------------------
(* ChesscomParser.generate_supplemental_tags, statement by statement *)

\* "Determines overall result of the game"
ResultBlockA(game) ==
    IF ~Has(game, "termination") THEN Raise(game)
    ELSE LET split_termination == SplitWS(game["termination"])
         IN  IF split_termination = <<>> THEN Raise(game)
             ELSE IF split_termination[1] = USERNAME THEN Ok(Set(game, "result", "win"))
             ELSE IF ~Has(game, "result") THEN Raise(game)
             ELSE IF game["result"] = "Game" THEN Ok(Set(game, "result", "draw"))
             ELSE Ok(Set(game, "result", "loss"))

\* ending = " ".join(split_termination[-2:])
EndingPhraseA(game) == Join(LastTwo(SplitWS(game["termination"])), SP)

Phrase(a, b) == Join(<<a, b>>, SP)

\* EndingBlockA with the stalemate case filed under draw
EndingBlockA_StalemateAsDraw(game) ==
    LET ending == EndingPhraseA(game)
    IN  IF ending = Phrase(w_by, w_checkmate) THEN Ok(Set(game, "ending", PyStr("checkmate")))
        ELSE IF ending = Phrase(w_by, w_resignation) THEN Ok(Set(game, "ending", PyStr("resignation")))
        ELSE IF ending = Phrase(w_on, w_time) THEN Ok(Set(game, "ending", PyStr("time")))
        ELSE IF ending = Phrase(w_by, w_repetition) THEN Ok(Set(game, "ending", PyStr("draw")))
        ELSE IF ending = Phrase(w_by, w_stalemate) THEN Ok(Set(game, "ending", PyStr("draw")))
        ELSE IF ending = Phrase(w_insufficient, w_material) THEN Ok(Set(game, "ending", PyStr("draw")))
        ELSE IF ending = Phrase(w_game, w_abandoned) THEN Ok(Set(game, "ending", PyStr("abandoned")))
        ELSE Ok(game)

\* "Gets reason for ending of game": the match statement
EndingBlockA(game) ==
    LET ending == EndingPhraseA(game)
    IN  IF ending = Phrase(w_by, w_checkmate) THEN Ok(Set(game, "ending", PyStr("checkmate")))
        ELSE IF ending = Phrase(w_by, w_resignation) THEN Ok(Set(game, "ending", PyStr("resignation")))
        ELSE IF ending = Phrase(w_on, w_time) THEN Ok(Set(game, "ending", PyStr("time")))
        ELSE IF ending = Phrase(w_by, w_repetition) THEN Ok(Set(game, "ending", PyStr("draw")))
        ELSE IF ending = Phrase(w_by, w_stalemate) THEN Ok(Set(game, "ending", PyStr("stalemate")))
        ELSE IF ending = Phrase(w_insufficient, w_material) THEN Ok(Set(game, "ending", PyStr("draw")))
        ELSE IF ending = Phrase(w_game, w_abandoned) THEN Ok(Set(game, "ending", PyStr("abandoned")))
        ELSE Ok(game)

\* "Finds the rating differential relative to me"
EloDiffBlockA(game) ==
    IF ~Has(game, "white") THEN Raise(game)
    ELSE IF ~Has(game, "whiteelo") \/ ~Has(game, "blackelo") THEN Raise(game)
    ELSE IF ~IntParses(game["whiteelo"]) \/ ~IntParses(game["blackelo"]) THEN Raise(game)
    ELSE IF game["white"] = USERNAME
         THEN Ok(Set(game, "elodiff", PyInt(ParseInt(game["whiteelo"]) - ParseInt(game["blackelo"]))))
         ELSE Ok(Set(game, "elodiff", PyInt(ParseInt(game["blackelo"]) - ParseInt(game["whiteelo"]))))

\* the if/elif/else on time_split
TimeCategoryA(time_split) ==
    IF time_split >= 600 THEN "rapid"
    ELSE IF 60 < time_split /\ time_split < 600 THEN "blitz"
    ELSE "bullet"

\* the if "+" in game["timecontrol"] that follows the daily/clocked branches
IncrementA(game) ==
    IF Contains(<<"+">>, game["timecontrol"]) THEN Set(game, "increment", "yes")
    ELSE Set(game, "increment", "no")

\* "Parses time control information"
TimeControlBlockA(game) ==
    IF ~Has(game, "timecontrol") THEN Raise(game)
    ELSE IF Contains(<<"/">>, game["timecontrol"])
         THEN Ok(IncrementA(Set(Set(game, "timecategory", "daily"), "increment", "n/a")))
         ELSE LET base == Split(game["timecontrol"], <<"+">>)[1]
              IN  IF ~IntParses(base) THEN Raise(game)
                  ELSE Ok(IncrementA(Set(game, "timecategory", TimeCategoryA(ParseInt(base)))))

\* one pass of the for loop over one mapping: each statement group runs on the
\* mapping the groups before it left, and a raise ends the pass there
DeriveA(game) ==
    LET result == ResultBlockA(game)
        ending == IF result.raised THEN result ELSE EndingBlockA(result.game)
        elodiff == IF ending.raised THEN ending ELSE EloDiffBlockA(ending.game)
        timecontrol == IF elodiff.raised THEN elodiff ELSE TimeControlBlockA(elodiff.game)
    IN  IF timecontrol.raised THEN timecontrol ELSE NMovesBlock(timecontrol.game)

\* the for loop from record k on: it stops in the first record that raises
RECURSIVE LoopA(_, _)
LoopA(tags, k) ==
    IF k > Len(tags) THEN [tags |-> tags, raised |-> FALSE, at |-> k]
    ELSE LET r == DeriveA(tags[k])
             now == [tags EXCEPT ![k] = r.game]
         IN  IF r.raised THEN [tags |-> now, raised |-> TRUE, at |-> k]
             ELSE LoopA(now, k + 1)

-----------------------------------------------------------------------------
(* The tag mappings extract_pgn_tags hands to generate_supplemental_tags *)

Sentence(words) == Join(words, SP)

WonTails ==
    { <<w_won, w_by, w_checkmate>>, <<w_won, w_by, w_resignation>>, <<w_won, w_on, w_time>>,
      <<w_won, w_dash, w_game, w_abandoned>>, <<w_won, w_by, w_agreement>> }

DrawnTails ==
    { <<w_drawn, w_by, w_repetition>>, <<w_drawn, w_by, w_stalemate>>,
      <<w_drawn, w_by, w_insufficient, w_material>>, <<w_drawn, w_by, w_agreement>>,
      <<w_drawn, w_by, w_timeout, w_vs, w_insufficient, w_material>> }

Terminations ==
    {Sentence(<<a>> \o t) : a \in {w_seanyseand, w_opponent}, t \in WonTails}
    \cup {Sentence(<<w_Game>> \o t) : t \in DrawnTails}
    \cup {Sentence(<<w_seanyseand>>), Sentence(<<w_opponent>>), Sentence(<<w_game, w_abandoned>>), SP}

TimeControlsA ==
    { IntToStr(60), IntToStr(600), IntToStr(180) \o <<"+">> \o IntToStr(2),
      IntToStr(1) \o <<"/">> \o IntToStr(86400), <<"-">> }

MovesA ==
    { <<>>,
      <<[num |-> 1], [san |-> "e4"], [san |-> "e5"], [num |-> 2], [san |-> "Nf3"]>>,
      <<[num |-> 1], [san |-> "e4"]>> }

BaseGameA ==
    [ white |-> w_seanyseand, black |-> w_opponent,
      whiteelo |-> IntToStr(1500), blackelo |-> IntToStr(1400),
      termination |-> Sentence(<<w_seanyseand, w_won, w_by, w_checkmate>>),
      result |-> "1-0", timecontrol |-> IntToStr(600),
      moves |-> <<[num |-> 1], [san |-> "e4"], [san |-> "e5"], [num |-> 2], [san |-> "Nf3"]>> ]

DrawnSentences == {Sentence(<<w_Game>> \o t) : t \in DrawnTails}

GamesA ==
    {[BaseGameA EXCEPT !.termination = t] : t \in Terminations}
    \cup {[BaseGameA EXCEPT !.termination = t, !.result = r] :
            t \in DrawnSentences, r \in {"1/2-1/2", "Game"}}
    \cup {[BaseGameA EXCEPT !.timecontrol = c] : c \in TimeControlsA}
    \cup {[BaseGameA EXCEPT !.timecontrol = c, !.white = w_opponent, !.black = w_seanyseand,
                            !.result = "0-1"] :
            c \in {IntToStr(180) \o <<"+">> \o IntToStr(2), IntToStr(1) \o <<"/">> \o IntToStr(86400)}}
    \cup {[BaseGameA EXCEPT !.moves = m] : m \in MovesA}
    \cup {Without(BaseGameA, k) : k \in {"termination", "timecontrol", "whiteelo"}}
    \cup {Without([BaseGameA EXCEPT !.termination = Sentence(<<w_opponent, w_won, w_on, w_time>>)],
                  "result")}

\* extract_pgn_tags: the mappings it appends are inputs
extract_pgn_tags ==
    /\ pcA = "idle"
    /\ \E tags \in SeqsUpTo(GamesA, MaxGames) :
        chesscom' = [chesscom EXCEPT !.pgn_tags = chesscom.pgn_tags \o tags]
    /\ pcA' = "extracted"
    /\ UNCHANGED <<response_text, fetched, iA, lichess, heap, pcB, iB, call, tc>>

generate_supplemental_tags ==
    /\ pcA = "extracted"
    /\ LET r == LoopA(chesscom.pgn_tags, 1)
       IN  /\ chesscom' = [chesscom EXCEPT !.pgn_tags = r.tags]
           /\ pcA' = IF r.raised THEN "raised" ELSE "returned"
           /\ iA' = r.at
    /\ UNCHANGED <<response_text, fetched, lichess, heap, pcB, iB, call, tc>>

-----------------------------------------------------------------------------
(* LichessParser.extract_ending_from_pgn *)

w_White == <<"W", "h", "i", "t", "e">>
w_Black == <<"B", "l", "a", "c", "k">>
w_resigns == <<"r", "e", "s", "i", "g", "n", "s">>
w_wins == <<"w", "i", "n", "s">>
w_left == <<"l", "e", "f", "t">>
w_the == <<"t", "h", "e">>
w_The == <<"T", "h", "e">>
w_is == <<"i", "s">>
w_a == <<"a">>
w_draw == <<"d", "r", "a", "w">>
w_Draw == <<"D", "r", "a", "w">>
w_offers == <<"o", "f", "f", "e", "r", "s">>
w_clk == <<"c", "l", "k">>

\* re.findall(r"{([^{}]+)}", moves): the texts of the annotations, in order
Annotations(moves) ==
    LET RECURSIVE Texts(_)
        Texts(m) == IF m = <<>> THEN <<>>
                    ELSE IF IsComment(m[1]) THEN <<m[1].comment>> \o Texts(Tail(m))
                    ELSE Texts(Tail(m))
    IN  Texts(moves)

\* ("Draw" or "draw"): Python's or gives its first operand when that is truthy
DrawNeedle == IF w_Draw # <<>> THEN w_Draw ELSE w_draw

\* the if/elif chain on the last annotation; falling off its end returns None
ClassifyAnnotation(ending) ==
    IF Contains(w_resigns, ending) THEN PyStr("resignation")
    ELSE IF Contains(w_checkmate, ending) THEN PyStr("checkmate")
    ELSE IF Contains(w_left, ending) THEN PyStr("abandoned")
    ELSE IF Contains(Phrase(w_on, w_time), ending) THEN PyStr("time")
    ELSE IF Contains(w_stalemate, ending) THEN PyStr("stalemate")
    ELSE IF Contains(DrawNeedle, ending) THEN PyStr("draw")
    ELSE None

extract_ending_from_pgn(moves) ==
    LET found == Annotations(moves)
    IN  IF found = <<>> THEN None ELSE ClassifyAnnotation(found[Len(found)])

\* bool(v) of a str or None
Truthy(v) == v # None /\ v # PyStr("")

-----------------------------------------------------------------------------
(* The structured records fetch_current_month_jsons hands over *)

AnnotationTexts ==
    { Sentence(<<w_White, w_resigns>>),
      Sentence(<<w_Game, w_drawn, w_by, w_stalemate>>),
      Sentence(<<w_The, w_game, w_is, w_a, w_draw>>),
      Sentence(<<w_Draw, w_by, w_repetition>>),
      Sentence(<<w_Draw, w_by, w_stalemate>>),
      Sentence(<<w_White, w_wins, w_on, w_time>>),
      Sentence(<<w_Black, w_left, w_the, w_game>>),
      Sentence(<<w_Black, w_wins, w_by, w_checkmate>>),
      Sentence(<<w_White, w_offers, w_draw>>),
      Sentence(<<w_clk>>) }

Opening == <<[num |-> 1], [san |-> "e4"], [san |-> "e5"], [num |-> 2], [san |-> "Nf3"]>>

Commented(texts) == Opening \o [k \in DOMAIN texts |-> [comment |-> texts[k]]]

MovesB ==
    { Opening,
      Commented(<<Sentence(<<w_clk>>), Sentence(<<w_White, w_resigns>>)>>),
      Commented(<<Sentence(<<w_Game, w_drawn, w_by, w_stalemate>>)>>),
      Commented(<<Sentence(<<w_The, w_game, w_is, w_a, w_draw>>)>>) }

TimeControlsB ==
    { <<"-">>, IntToStr(600) \o <<"+">> \o IntToStr(0), IntToStr(60) \o <<"+">> \o IntToStr(1),
      IntToStr(300) }

BaseTagsB ==
    [ white |-> w_seanyseand, black |-> w_opponent, result |-> "1-0",
      timecontrol |-> IntToStr(600) \o <<"+">> \o IntToStr(0),
      whiteratingdiff |-> <<"+", "8">>, blackratingdiff |-> <<"-", "8">>,
      moves |-> Commented(<<Sentence(<<w_White, w_resigns>>)>>) ]

Json(tags) == [k \in {"pgn"} |-> tags]

GamesB ==
    {Json([BaseTagsB EXCEPT !.moves = m, !.timecontrol = c]) : m \in MovesB, c \in TimeControlsB}
    \cup {Json(Without([BaseTagsB EXCEPT !.moves = m], "timecontrol")) : m \in MovesB}
    \cup {Set(Json([BaseTagsB EXCEPT !.white = w[1], !.black = w[2]]), "winner", v) :
            w \in {<<w_seanyseand, w_opponent>>, <<w_opponent, w_seanyseand>>},
            v \in {"white", "black", "draw"}}
    \cup {Json(Without(Without(BaseTagsB, "whiteratingdiff"), "blackratingdiff"))}

-----------------------------------------------------------------------------
(* LichessParser.convert_json_list_to_pgn_list, statement by statement *)

\* re.sub(r"{[^{}]+}", "", moves); the re.sub that pads move numbers and the
\* strip change white space only
StripAnnotations(moves) == SelectSeq(moves, LAMBDA tok : ~IsComment(tok))

\* tags = self.extract_pgn_tags_from_json(json["pgn"]) to tags["moves"] = ...;
\* json["pgn"] is held as the mapping extract_pgn_tags_from_json makes of it
ExtractBlockB(json) ==
    LET tags == json["pgn"]
        ending == extract_ending_from_pgn(tags["moves"])
    IN  Set(Set(tags, "ending", ending), "moves", StripAnnotations(tags["moves"]))

\* if "winner" in json: match json["winner"] ... else: tags["result"] = "draw"
ResultBlockB(json, tags) ==
    IF Has(json, "winner") THEN
        IF json["winner"] = "white" THEN
            IF ~Has(tags, "white") THEN Raise(tags)
            ELSE IF tags["white"] = USERNAME THEN Ok(Set(tags, "result", "win"))
            ELSE Ok(Set(tags, "result", "loss"))
        ELSE IF json["winner"] = "black" THEN
            IF ~Has(tags, "black") THEN Raise(tags)
            ELSE IF tags["black"] = USERNAME THEN Ok(Set(tags, "result", "win"))
            ELSE Ok(Set(tags, "result", "loss"))
        ELSE Ok(tags)
    ELSE Ok(Set(tags, "result", "draw"))

\* AppendBlockB without the test of tags["ending"]
AppendBlockB_Always(pgn_tags, tags, ref) == Append(pgn_tags, ref)

\* if tags["ending"]: self.pgn_tags.append(tags); the list holds the dict itself
AppendBlockB(pgn_tags, tags, ref) ==
    IF Truthy(tags["ending"]) THEN Append(pgn_tags, ref) ELSE pgn_tags

\* the try/except KeyError around tags["whiteratingdiff"] / tags["blackratingdiff"]
EloDiffBlockB(tags) ==
    IF ~Has(tags, "white") THEN Raise(tags)
    ELSE IF tags["white"] = USERNAME
         THEN IF Has(tags, "whiteratingdiff")
              THEN Ok(Set(tags, "elodiff", PyStr(tags["whiteratingdiff"])))
              ELSE Ok(Set(tags, "elodiff", None))
         ELSE IF Has(tags, "blackratingdiff")
              THEN Ok(Set(tags, "elodiff", PyStr(tags["blackratingdiff"])))
              ELSE Ok(Set(tags, "elodiff", None))

\* TimeCategoryB with the rapid threshold exclusive
TimeCategoryB_RapidAbove600(time) ==
    IF time > 600 THEN "rapid"
    ELSE IF 60 < time /\ time < 600 THEN "blitz"
    ELSE "bullet"

\* the if/elif/else on time
TimeCategoryB(time) ==
    IF time >= 600 THEN "rapid"
    ELSE IF 60 < time /\ time < 600 THEN "blitz"
    ELSE "bullet"

\* if increment: ... else: ...
IncrementB(increment) == IF increment # 0 THEN "yes" ELSE "no"

\* "Parses time control information"
TimeControlBlockB(tags) ==
    IF ~Has(tags, "timecontrol") THEN Raise(tags)
    ELSE IF tags["timecontrol"] = <<"-">>
         THEN Ok(Set(Set(tags, "timecategory", "daily"), "increment", "n/a"))
         ELSE LET time_split == Split(tags["timecontrol"], <<"+">>)
              IN  IF ~IntParses(time_split[1]) THEN Raise(tags)
                  ELSE IF Len(time_split) < 2 THEN Raise(tags)
                  ELSE IF ~IntParses(time_split[2]) THEN Raise(tags)
                  ELSE Ok(Set(Set(tags, "timecategory", TimeCategoryB(ParseInt(time_split[1]))),
                              "increment", IncrementB(ParseInt(time_split[2]))))

\* the dicts self.pgn_tags refers to
PgnTagsB == [k \in DOMAIN lichess.pgn_tags |-> heap[lichess.pgn_tags[k]]]

\* a statement group of the loop body writes the dict of the current record
StepB(r, next) ==
    /\ heap' = [heap EXCEPT ![iB] = r.game]
    /\ pcB' = IF r.raised THEN "raised" ELSE next

\* fetch_current_month_jsons: the records json.loads returns are inputs
fetch_current_month_jsons ==
    /\ pcB = "idle"
    /\ \E json_list \in SeqsUpTo(GamesB, MaxGames) :
        lichess' = [lichess EXCEPT !.json_list = json_list]
    /\ pcB' = "fetched"
    /\ UNCHANGED <<chesscom, response_text, fetched, pcA, iA, heap, iB, call, tc>>

\* for json in self.json_list: the next record, or the return when none is left
LoopHeadB ==
    /\ pcB \in {"fetched", "next"}
    /\ IF iB < Len(lichess.json_list)
       THEN /\ iB' = iB + 1
            /\ pcB' = "extract"
       ELSE /\ iB' = iB
            /\ pcB' = "returned"
    /\ UNCHANGED <<chesscom, response_text, fetched, pcA, iA, lichess, heap, call, tc>>

ExtractB ==
    /\ pcB = "extract"
    /\ LET r == ResultBlockB(lichess.json_list[iB], ExtractBlockB(lichess.json_list[iB]))
       IN  /\ heap' = Append(heap, r.game)
           /\ pcB' = IF r.raised THEN "raised" ELSE "append"
    /\ UNCHANGED <<chesscom, response_text, fetched, pcA, iA, lichess, iB, call, tc>>

AppendB ==
    /\ pcB = "append"
    /\ lichess' = [lichess EXCEPT !.pgn_tags = AppendBlockB(lichess.pgn_tags, heap[iB], iB)]
    /\ pcB' = "elodiff"
    /\ UNCHANGED <<chesscom, response_text, fetched, pcA, iA, heap, iB, call, tc>>

EloDiffB ==
    /\ pcB = "elodiff"
    /\ StepB(EloDiffBlockB(heap[iB]), "timecontrol")
    /\ UNCHANGED <<chesscom, response_text, fetched, pcA, iA, lichess, iB, call, tc>>

TimeControlB ==
    /\ pcB = "timecontrol"
    /\ StepB(TimeControlBlockB(heap[iB]), "nmoves")
    /\ UNCHANGED <<chesscom, response_text, fetched, pcA, iA, lichess, iB, call, tc>>

NMovesB ==
    /\ pcB = "nmoves"
    /\ StepB(NMovesBlock(heap[iB]), "next")
    /\ UNCHANGED <<chesscom, response_text, fetched, pcA, iA, lichess, iB, call, tc>>

-----------------------------------------------------------------------------
(* One call of extract_ending_from_pgn, and one run of each time-control block *)

MovesTexts == {Commented(texts) : texts \in SeqsUpTo(AnnotationTexts, MaxAnnotations)}

extract_ending_from_pgn_call ==
    /\ call.pc = "called"
    /\ call' = [call EXCEPT !.pc = "returned", !.ret = extract_ending_from_pgn(call.moves)]
    /\ UNCHANGED <<chesscom, response_text, fetched, pcA, iA, lichess, heap, pcB, iB, tc>>

Bases == (0 - NegBases)..MaxBase

IncrementSuffixes == {<<>>, <<"+">> \o IntToStr(0), <<"+">> \o IntToStr(5)}

time_control_a ==
    /\ tc.pc_a = "called"
    /\ LET r == TimeControlBlockA(tc.game_a)
       IN  tc' = [tc EXCEPT !.game_a = r.game, !.pc_a = IF r.raised THEN "raised" ELSE "done"]
    /\ UNCHANGED <<chesscom, response_text, fetched, pcA, iA, lichess, heap, pcB, iB, call>>

time_control_b ==
    /\ tc.pc_b = "called"
    /\ LET r == TimeControlBlockB(tc.game_b)
       IN  tc' = [tc EXCEPT !.game_b = r.game, !.pc_b = IF r.raised THEN "raised" ELSE "done"]
    /\ UNCHANGED <<chesscom, response_text, fetched, pcA, iA, lichess, heap, pcB, iB, call>>

-----------------------------------------------------------------------------
(* Specifications *)

\* ChesscomParser.__init__ and LichessParser.__init__
ChesscomInit == chesscom = [pgn_list |-> <<>>, pgn_tags |-> <<>>]
LichessInit == lichess = [json_list |-> <<>>, pgn_tags |-> <<>>]

Idle ==
    /\ response_text = <<>>
    /\ fetched = "none"
    /\ pcA = "idle"
    /\ iA = 0
    /\ heap = <<>>
    /\ pcB = "idle"
    /\ iB = 0
    /\ call = [pc |-> "none"]
    /\ tc = [pc_a |-> "none", pc_b |-> "none"]

InitSplit == ChesscomInit /\ LichessInit /\ Idle

NextSplit ==
    \/ fetch_current_month_pgns
    \/ fetch_specific_month_pgns
    \/ fetch_month_range_pgns

SpecSplit == InitSplit /\ [][NextSplit]_vars

InitA == ChesscomInit /\ LichessInit /\ Idle

NextA == extract_pgn_tags \/ generate_supplemental_tags

SpecA == InitA /\ [][NextA]_vars

InitB == ChesscomInit /\ LichessInit /\ Idle

NextB ==
    \/ fetch_current_month_jsons
    \/ LoopHeadB
    \/ ExtractB
    \/ AppendB
    \/ EloDiffB
    \/ TimeControlB
    \/ NMovesB

SpecB == InitB /\ [][NextB]_vars

IdleBut(v) ==
    /\ response_text = <<>>
    /\ fetched = "none"
    /\ pcA = "idle"
    /\ iA = 0
    /\ heap = <<>>
    /\ pcB = "idle"
    /\ iB = 0
    /\ v = "call" \/ call = [pc |-> "none"]
    /\ v = "tc" \/ tc = [pc_a |-> "none", pc_b |-> "none"]

InitEnding ==
    /\ ChesscomInit /\ LichessInit /\ IdleBut("call")
    /\ call \in {[pc |-> "called", moves |-> m, ret |-> None] : m \in MovesTexts}

NextEnding == extract_ending_from_pgn_call

SpecEnding == InitEnding /\ [][NextEnding]_vars

InitTC ==
    /\ ChesscomInit /\ LichessInit /\ IdleBut("tc")
    /\ tc \in {[base |-> b, pc_a |-> "called", pc_b |-> "called",
                 game_a |-> [timecontrol |-> IntToStr(b) \o s],
                 game_b |-> [timecontrol |-> IntToStr(b) \o s]] :
                b \in Bases, s \in IncrementSuffixes}

NextTC == time_control_a \/ time_control_b

SpecTC == InitTC /\ [][NextTC]_vars

-----------------------------------------------------------------------------
(* Properties *)

\* the records of pgn_tags whose pass through generate_supplemental_tags completed
CompletedA == IF pcA \in {"returned", "raised"} THEN 1..(iA - 1) ELSE {}

\* the records whose pass through convert_json_list_to_pgn_list completed
CompletedB == {k \in DOMAIN heap : k < iB \/ pcB \in {"next", "returned"}}

FirstWord(game) == SplitWS(game["termination"])[1]

\* C1: in source A every derived record has result "win" when the first word of
\* its termination sentence is the identity, else "draw" when that word is
\* "Game", else "loss", whatever the Result tag held.
C1_ResultFromTermination ==
    \A k \in CompletedA :
        LET game == chesscom.pgn_tags[k]
        IN  game["result"] = IF FirstWord(game) = USERNAME THEN "win"
                             ELSE IF FirstWord(game) = w_Game THEN "draw"
                             ELSE "loss"

DailyIsNotApplicable(game, daily) ==
    /\ daily => game["timecategory"] = "daily" /\ game["increment"] = "n/a"
    /\ game["increment"] \in {"yes", "no"} => ~daily

\* C2: a derived record whose time control denotes daily play (source A: it
\* contains "/", source B: it is "-") has timecategory "daily" and increment
\* "n/a"; increment is "yes" or "no" only for clocked games.
C2_DailyIncrementNotApplicable ==
    /\ \A k \in CompletedA :
        LET game == chesscom.pgn_tags[k]
        IN  DailyIsNotApplicable(game, Contains(<<"/">>, game["timecontrol"]))
    /\ \A k \in CompletedB :
        DailyIsNotApplicable(heap[k], heap[k]["timecontrol"] = <<"-">>)

\* the priority list of ending classifier B, "draw" in either case
ExpectedEndingB(text) ==
    IF Contains(w_resigns, text) THEN PyStr("resignation")
    ELSE IF Contains(w_checkmate, text) THEN PyStr("checkmate")
    ELSE IF Contains(w_left, text) THEN PyStr("abandoned")
    ELSE IF Contains(Phrase(w_on, w_time), text) THEN PyStr("time")
    ELSE IF Contains(w_stalemate, text) THEN PyStr("stalemate")
    ELSE IF Contains(w_draw, text) \/ Contains(w_Draw, text) THEN PyStr("draw")
    ELSE None

\* C3: extract_ending_from_pgn returns the first match of the priority list on
\* the last annotation of the move text, a lowercase "draw" included, and None
\* when the text has no annotation.
C3_EndingFromLastAnnotation ==
    call.pc = "returned" =>
        LET found == Annotations(call.moves)
        IN  call.ret = IF found = <<>> THEN None ELSE ExpectedEndingB(found[Len(found)])

CategoriesOf(base) ==
    {c \in {"rapid", "blitz", "bullet"} :
        \/ c = "rapid" /\ base >= 600
        \/ c = "blitz" /\ 60 < base /\ base < 600
        \/ c = "bullet" /\ base <= 60}

BoundaryCategory(base, category) ==
    /\ base = 60 => category = "bullet"
    /\ base = 61 => category = "blitz"
    /\ base = 599 => category = "blitz"
    /\ base = 600 => category = "rapid"

\* C4: the category of a clocked game is a function of the base seconds alone,
\* the same in both parsers: rapid from 600, blitz between 60 and 600
\* exclusive, bullet up to 60; every base has exactly one category.
C4_TimeCategoryByBase ==
    /\ Cardinality(CategoriesOf(tc.base)) = 1
    /\ tc.pc_a = "done" =>
        /\ tc.game_a["timecategory"] \in CategoriesOf(tc.base)
        /\ BoundaryCategory(tc.base, tc.game_a["timecategory"])
    /\ tc.pc_b = "done" =>
        /\ tc.game_b["timecategory"] \in CategoriesOf(tc.base)
        /\ BoundaryCategory(tc.base, tc.game_b["timecategory"])
    /\ tc.pc_a = "done" /\ tc.pc_b = "done" =>
        tc.game_a["timecategory"] = tc.game_b["timecategory"]

C4_BothRapidAt600 ==
    /\ tc.base = 600
    /\ tc.pc_a = "done" /\ tc.game_a["timecategory"] = "rapid"
    /\ tc.pc_b = "done" /\ tc.game_b["timecategory"] = "rapid"

\* the positions of json_list whose last annotation is classified
Classifiable ==
    SelectSeq([k \in DOMAIN lichess.json_list |-> k],
              LAMBDA k : extract_ending_from_pgn(lichess.json_list[k]["pgn"]["moves"]) # None)

\* C5: when convert_json_list_to_pgn_list has returned, pgn_tags holds, in the
\* order of json_list and once each, the records with a classified ending and
\* no other.
C5_OutputIsClassifiedSubsequence ==
    pcB = "returned" =>
        /\ lichess.pgn_tags = Classifiable
        /\ \A j \in DOMAIN lichess.pgn_tags :
            /\ PgnTagsB[j]["ending"] # None
            /\ PgnTagsB[j]["white"] = lichess.json_list[lichess.pgn_tags[j]]["pgn"]["white"]

C5_SecondOfTwoKept ==
    /\ pcB = "returned"
    /\ Len(lichess.json_list) = 2
    /\ lichess.pgn_tags = <<2>>

NonEmptyUnits(text) == SelectSeq(Split(text, GameSeparator), LAMBDA unit : unit # <<>>)

\* C6: each fetch leaves in pgn_list the non-empty units of the blob, in order,
\* with no empty unit; an empty blob leaves pgn_list empty.
C6_SplitterDiscardsEmptyUnits ==
    /\ fetched \in {"current", "specific"} =>
        chesscom.pgn_list = NonEmptyUnits(response_text[1])
    /\ fetched = "range" =>
        /\ \A k \in DOMAIN chesscom.pgn_list : chesscom.pgn_list[k] # <<>>
        /\ (\A m \in DOMAIN response_text : response_text[m] = <<>>) => chesscom.pgn_list = <<>>

Endings == {"checkmate", "resignation", "time", "stalemate", "draw", "abandoned"}

Derived(game) ==
    /\ Has(game, "result") /\ game["result"] \in {"win", "loss", "draw"}
    /\ Has(game, "ending") => game["ending"] \in {PyStr(e) : e \in Endings} \cup {None}
    /\ Has(game, "timecategory") /\ game["timecategory"] \in {"bullet", "blitz", "rapid", "daily"}
    /\ Has(game, "increment") /\ game["increment"] \in {"yes", "no", "n/a"}
    /\ Has(game, "nmoves") /\ DOMAIN game["nmoves"] = {"int"} /\ game["nmoves"].int >= 0
    /\ Has(game, "elodiff") /\ (DOMAIN game["elodiff"] = {"int"} \/ game["elodiff"] = None)

\* C7: every record whose derivation completed, in either parser, has result in
\* win/loss/draw, ending in the six endings or null or absent, timecategory in
\* bullet/blitz/rapid/daily, increment in yes/no/n/a, nmoves a non-negative
\* integer and elodiff an integer or null.
C7_DerivedFieldsInRange ==
    /\ \A k \in CompletedA : Derived(chesscom.pgn_tags[k])
    /\ \A k \in CompletedB : Derived(heap[k])

\* the result block of generate_supplemental_tags has written the record
PastResultBlock(game) == Has(game, "result") /\ game["result"] \in {"win", "loss", "draw"}

\* the statements after the match statement find what they read
EloInputsOk(game) ==
    /\ Has(game, "white") /\ Has(game, "whiteelo") /\ Has(game, "blackelo")
    /\ IntParses(game["whiteelo"]) /\ IntParses(game["blackelo"])

\* the table of ending classifier A, on the last two words
ExpectedEndingA(words) ==
    CASE words = <<w_by, w_checkmate>> -> "checkmate"
      [] words = <<w_by, w_resignation>> -> "resignation"
      [] words = <<w_on, w_time>> -> "time"
      [] words = <<w_by, w_repetition>> -> "draw"
      [] words = <<w_insufficient, w_material>> -> "draw"
      [] words = <<w_by, w_stalemate>> -> "stalemate"
      [] words = <<w_game, w_abandoned>> -> "abandoned"
      [] OTHER -> "unset"

\* C8: in source A the last two words of the termination sentence decide the
\* ending by the table; any other phrase leaves the key unset and raises nothing
\* (the statements after the match statement run), and the record is kept.  "seanyseand won by checkmate" gives win and checkmate,
\* "opponent won on time" gives loss and time.
C8_EndingFromLastTwoWords ==
    /\ \A k \in CompletedA :
        LET game == chesscom.pgn_tags[k]
            expected == ExpectedEndingA(LastTwo(SplitWS(game["termination"])))
        IN  /\ expected = "unset" => ~Has(game, "ending")
            /\ expected # "unset" => Has(game, "ending") /\ game["ending"] = PyStr(expected)
            /\ game["termination"] = Sentence(<<w_seanyseand, w_won, w_by, w_checkmate>>) =>
                game["result"] = "win" /\ game["ending"] = PyStr("checkmate")
            /\ game["termination"] = Sentence(<<w_opponent, w_won, w_on, w_time>>) =>
                game["result"] = "loss" /\ game["ending"] = PyStr("time")
    /\ pcA = "raised" =>
        LET game == chesscom.pgn_tags[iA]
        IN  PastResultBlock(game) /\ EloInputsOk(game) => Has(game, "elodiff")

C8_UnrecognisedPhraseKept ==
    /\ pcA = "returned"
    /\ Len(chesscom.pgn_tags) = 2
    /\ chesscom.pgn_tags[1]["termination"] = Sentence(<<w_Game, w_drawn, w_by, w_agreement>>)
    /\ ~Has(chesscom.pgn_tags[1], "ending")
    /\ chesscom.pgn_tags[2]["termination"] = Sentence(<<w_opponent, w_won, w_on, w_time>>)
    /\ chesscom.pgn_tags[2]["ending"] = PyStr("time")

\* C9: when the derivation of a record of source B raises, pgn_tags holds no
\* record whose derivation did not complete.
C9_RaisingRecordNotInOutput ==
    pcB = "raised" => \A j \in DOMAIN lichess.pgn_tags : lichess.pgn_tags[j] \in CompletedB

\* C10: no step writes a record that pgn_tags already holds.
C10_NoWriteAfterAppend ==
    [][\A j \in DOMAIN lichess.pgn_tags :
        heap'[lichess.pgn_tags[j]] = heap[lichess.pgn_tags[j]]]_vars

====
